---- MODULE Spec2Model ----
(***************************************************************************)
(* cspretty: reads Content-Security-Policy header values from standard     *)
(* input, one per line, and writes a colour-annotated rendering.           *)
(*                                                                         *)
(* A Rust string is modelled as a sequence of characters, each character a *)
(* one-character TLA+ string.  The modelled alphabet is ASCII; the         *)
(* vertical tab and the escape character stand in their strings as the     *)
(* characters themselves.                                                  *)
(***************************************************************************)
EXTENDS Integers, Sequences, FiniteSets, TLC

VARIABLES
    stdin,      \* main: the lines the input stream will deliver
    nread,      \* main: number of lines taken from the stream so far
    pc,         \* main: position in the loop of main
    line,       \* main: the line bound by the for loop
    result,     \* main: the value of handle_line(..) being printed
    stdout,     \* main: the writes made to standard output, in order
    multiline,  \* Args.multiline / the multi_line parameter
    colorize,   \* whether the colouring library emits escape codes
    arg,        \* the string a function is called on
    called,     \* whether the function under study has returned
    ret         \* what it returned

vars == <<stdin, nread, pc, line, result, stdout, multiline, colorize, arg, called, ret>>

-----------------------------------------------------------------------------
(* Characters *)

UpperCase == <<"A", "B", "C", "D", "E", "F", "G", "H", "I", "J", "K", "L", "M", "N", "O", "P", "Q", "R", "S", "T", "U", "V", "W", "X", "Y", "Z">>
LowerCase == <<"a", "b", "c", "d", "e", "f", "g", "h", "i", "j", "k", "l", "m", "n", "o", "p", "q", "r", "s", "t", "u", "v", "w", "x", "y", "z">>
Digits == <<"0", "1", "2", "3", "4", "5", "6", "7", "8", "9">>

Range(f) == {f[i] : i \in DOMAIN f}

\* \w of the regex crate, restricted to ASCII: letters, digits, underscore
IsWordChar(c) == c \in Range(UpperCase) \cup Range(LowerCase) \cup Range(Digits) \cup {"_"}

\* U+000B, the vertical tab
VT == ""

\* char::is_whitespace as str::split_whitespace uses it, restricted to ASCII:
\* U+0009 to U+000D and the space
IsWhitespace(c) == c \in {" ", "\t", "\n", VT, "\f", "\r"}

\* char lowercasing of str::to_lowercase, restricted to ASCII
LowerChar(c) ==
    IF c \in Range(UpperCase)
    THEN LowerCase[CHOOSE i \in DOMAIN UpperCase : UpperCase[i] = c]
    ELSE c

to_lowercase(s) == [i \in DOMAIN s |-> LowerChar(s[i])]

-----------------------------------------------------------------------------
(* String literals of the source *)

CSP_HEADER == <<"c", "o", "n", "t", "e", "n", "t", "-", "s", "e", "c", "u", "r", "i", "t", "y", "-", "p", "o", "l", "i", "c", "y", ":">>
KW_SELF == <<"'", "s", "e", "l", "f", "'">>
KW_NONE == <<"'", "n", "o", "n", "e", "'">>
KW_UNSAFE_INLINE == <<"'", "u", "n", "s", "a", "f", "e", "-", "i", "n", "l", "i", "n", "e", "'">>
KW_UNSAFE_EVAL == <<"'", "u", "n", "s", "a", "f", "e", "-", "e", "v", "a", "l", "'">>
KW_DATA == <<"d", "a", "t", "a", ":">>
SCHEME_HTTP == <<"h", "t", "t", "p", ":", "/", "/">>
SCHEME_HTTPS == <<"h", "t", "t", "p", "s", ":", "/", "/">>
SEP_SINGLE == <<" ">>
SEP_MULTI == <<"\n", "\t">>
ROW_JOIN == <<";", "\n">>
SEMICOLON == <<";">>

-----------------------------------------------------------------------------
(* Library string operations *)

\* whether pat occurs in s starting at index i
StartsAt(s, pat, i) ==
    /\ i >= 1
    /\ i + Len(pat) - 1 <= Len(s)
    /\ \A k \in 1..Len(pat) : s[i + k - 1] = pat[k]

\* str::find: index of the first occurrence of pat in s, 0 when there is none
Find(s, pat) ==
    IF \E i \in 1..Len(s) : StartsAt(s, pat, i)
    THEN CHOOSE i \in 1..Len(s) :
            /\ StartsAt(s, pat, i)
            /\ \A k \in 1..(i - 1) : ~StartsAt(s, pat, k)
    ELSE 0

\* str::split(pat) collected: the pieces between the non-overlapping
\* occurrences of a non-empty pat, found left to right
RECURSIVE Split(_, _)
Split(s, pat) ==
    LET i == Find(s, pat)
    IN  IF i = 0
        THEN <<s>>
        ELSE <<SubSeq(s, 1, i - 1)>> \o Split(SubSeq(s, i + Len(pat), Len(s)), pat)

\* str::split_whitespace collected: the maximal runs of non-whitespace
RECURSIVE split_whitespace(_)
split_whitespace(s) ==
    IF s = <<>> THEN <<>>
    ELSE IF IsWhitespace(s[1]) THEN split_whitespace(Tail(s))
    ELSE LET ends == {j \in 1..Len(s) : \A k \in 1..j : ~IsWhitespace(s[k])}
             j == CHOOSE m \in ends : \A n \in ends : n <= m
         IN  <<SubSeq(s, 1, j)>> \o split_whitespace(SubSeq(s, j + 1, Len(s)))

\* [String]::join(sep)
RECURSIVE join(_, _)
join(strs, sep) ==
    IF strs = <<>> THEN <<>>
    ELSE IF Len(strs) = 1 THEN strs[1]
    ELSE strs[1] \o sep \o join(Tail(strs), sep)

-----------------------------------------------------------------------------
(* Value::is_url: Regex (https?://)?(\w+\.)+(\w)+ , is_match (a search) *)

\* positions just after a match of \w+ that starts at i
AfterWordPlus(s, i) ==
    {j + 1 : j \in {m \in i..Len(s) : \A k \in i..m : IsWordChar(s[k])}}

\* positions just after a match of (\w+\.)+ that starts at i
RECURSIVE AfterGroups(_, _)
AfterGroups(s, i) ==
    LET once == {j + 1 : j \in {m \in AfterWordPlus(s, i) : m <= Len(s) /\ s[m] = "."}}
    IN  once \cup UNION {AfterGroups(s, p) : p \in once}

\* positions just after a match of (https?://)? that starts at i
AfterScheme(s, i) ==
    {i} \cup (IF StartsAt(s, SCHEME_HTTP, i) THEN {i + Len(SCHEME_HTTP)} ELSE {})
        \cup (IF StartsAt(s, SCHEME_HTTPS, i) THEN {i + Len(SCHEME_HTTPS)} ELSE {})

\* whether the whole pattern matches starting at i
MatchesAt(s, i) ==
    \E p \in AfterScheme(s, i) : \E q \in AfterGroups(s, p) : AfterWordPlus(s, q) # {}

\* the pattern anchored at both ends
is_url_anchored(value) ==
    \E p \in AfterScheme(value, 1) : \E q \in AfterGroups(value, p) :
        (Len(value) + 1) \in AfterWordPlus(value, q)

is_url(value) == \E i \in 1..Len(value) : MatchesAt(value, i)

-----------------------------------------------------------------------------
(* Value *)

\* a classify whose keyword match ignores letter case
classify_caseless(value) ==
    LET v == to_lowercase(value)
    IN  IF v = KW_SELF THEN "Safe"
        ELSE IF v = KW_NONE THEN "Safe"
        ELSE IF v = KW_UNSAFE_INLINE THEN "UnSafe"
        ELSE IF v = KW_UNSAFE_EVAL THEN "UnSafe"
        ELSE IF v = KW_DATA THEN "UnSafe"
        ELSE IF is_url(value) THEN "Plain"
        ELSE "Error"

classify(value) ==
    IF value = KW_SELF THEN "Safe"
    ELSE IF value = KW_NONE THEN "Safe"
    ELSE IF value = KW_UNSAFE_INLINE THEN "UnSafe"
    ELSE IF value = KW_UNSAFE_EVAL THEN "UnSafe"
    ELSE IF value = KW_DATA THEN "UnSafe"
    ELSE IF is_url(value) THEN "Plain"
    ELSE "Error"

Value_from(text) == [text |-> text, value_type |-> classify(text)]

\* U+001B, the escape character, and the escape sequences of the styles
ESC == ""
STYLE_BLUE == <<ESC, "[", "3", "4", "m">>
STYLE_GREEN == <<ESC, "[", "3", "2", "m">>
STYLE_RED == <<ESC, "[", "3", "1", "m">>
STYLE_BLACK_ON_RED == <<ESC, "[", "4", "1", ";", "3", "0", "m">>
STYLE_NONE == <<>>
STYLE_RESET == <<ESC, "[", "0", "m">>

\* ColoredString's Display: the text between the style's escape sequence and
\* the reset sequence when colouring is on and a style is set, else the text
Paint(text, code, col) ==
    IF col /\ code # STYLE_NONE THEN code \o text \o STYLE_RESET ELSE text

pretty(v, col) ==
    CASE v.value_type = "Error"  -> Paint(v.text, STYLE_BLACK_ON_RED, col)
      [] v.value_type = "UnSafe" -> Paint(v.text, STYLE_RED, col)
      [] v.value_type = "Plain"  -> Paint(v.text, STYLE_NONE, col)
      [] v.value_type = "Safe"   -> Paint(v.text, STYLE_GREEN, col)

-----------------------------------------------------------------------------
(* Row.  An Option<Row> is the empty sequence (None) or a sequence of one Row *)
(* (Some), which is also what Option yields as an iterator.                *)

\* a Row::from that keeps one-word segments
Row_from_min1(segment) ==
    LET parts == split_whitespace(segment)
    IN  IF Len(parts) < 1 THEN <<>>
        ELSE <<[key |-> parts[1],
                values |-> [i \in 1..(Len(parts) - 1) |-> Value_from(parts[i + 1])]]>>

Row_from(segment) ==
    LET parts == split_whitespace(segment)
    IN  IF Len(parts) < 2 THEN <<>>
        ELSE <<[key |-> parts[1],
                values |-> [i \in 1..(Len(parts) - 1) |-> Value_from(parts[i + 1])]]>>

\* a rendering that also puts the separator after the last value
to_colored_string_trailing(row, separator, col) ==
    Paint(row.key, STYLE_BLUE, col) \o separator
        \o join([i \in DOMAIN row.values |-> pretty(row.values[i], col)], separator)
        \o separator

to_colored_string(row, separator, col) ==
    Paint(row.key, STYLE_BLUE, col) \o separator
        \o join([i \in DOMAIN row.values |-> pretty(row.values[i], col)], separator)

-----------------------------------------------------------------------------
(* pretty_print and handle_line *)

\* a collection of rows that stops at the first segment giving no Row
RECURSIVE map_while_rows(_)
map_while_rows(parts) ==
    IF parts = <<>> THEN <<>>
    ELSE IF Row_from(parts[1]) = <<>> THEN <<>>
    ELSE Row_from(parts[1]) \o map_while_rows(Tail(parts))

\* Iterator::flat_map(Row::from) collected: the Some rows, in order
RECURSIVE flat_map_rows(_)
flat_map_rows(parts) ==
    IF parts = <<>> THEN <<>>
    ELSE Row_from(parts[1]) \o flat_map_rows(Tail(parts))

parse_rows(input) == flat_map_rows(Split(input, SEMICOLON))

\* a pretty_print that leaves a blank line between rows in multi-line mode
pretty_print_blank_line(input, multi_line, col) ==
    LET separator == IF multi_line THEN SEP_MULTI ELSE SEP_SINGLE
        rows == parse_rows(input)
    IN  join([i \in DOMAIN rows |-> to_colored_string(rows[i], separator, col)],
             IF multi_line THEN ROW_JOIN \o <<"\n">> ELSE ROW_JOIN)

pretty_print(input, multi_line, col) ==
    LET separator == IF multi_line THEN SEP_MULTI ELSE SEP_SINGLE
        rows == parse_rows(input)
    IN  join([i \in DOMAIN rows |-> to_colored_string(rows[i], separator, col)], ROW_JOIN)

handle_line(input, multi_line, col) ==
    LET normalised_input == to_lowercase(input)
        pieces == Split(normalised_input, CSP_HEADER)
    IN  IF Len(pieces) < 2
        THEN pretty_print(input, multi_line, col)
        ELSE pretty_print(pieces[2], multi_line, col)

-----------------------------------------------------------------------------
(* Inputs *)

MaxTokenLen == 5
MaxSegmentPieces == 5

\* all sequences over S of length at most n
SeqsUpTo(S, n) == UNION {[1..k -> S] : k \in 0..n}

RECURSIVE Concat(_)
Concat(ss) == IF ss = <<>> THEN <<>> ELSE ss[1] \o Concat(Tail(ss))

EX_UNSAFE_FOOBAR == <<"'", "u", "n", "s", "a", "f", "e", "-", "f", "o", "o", "b", "a", "r", "'">>
EX_HTTPS_FOO == <<"'", "h", "t", "t", "p", "s", ":", "/", "/", "f", "o", "o", "'">>
EX_HTTPS_FOO_BAR == <<"'", "h", "t", "t", "p", "s", ":", "/", "/", "f", "o", "o", ".", "b", "a", "r", "'">>
EX_STAR == <<"*">>
EX_STAR_TRUSTED == <<"*", ".", "t", "r", "u", "s", "t", "e", "d", ".", "c", "o", "m">>

KeywordLike == {
    KW_SELF,
    KW_NONE,
    KW_UNSAFE_INLINE,
    KW_UNSAFE_EVAL,
    KW_DATA,
    <<"'", "S", "e", "l", "f", "'">>,
    <<"'", "N", "O", "N", "E", "'">>,
    <<"D", "a", "t", "a", ":">>,
    EX_UNSAFE_FOOBAR,
    EX_HTTPS_FOO,
    EX_HTTPS_FOO_BAR,
    <<"h", "t", "t", "p", "s", ":", "/", "/", "*">>,
    <<"h", "t", "t", "p", ":", "/", "/", "a", ".", "b">>,
    <<"h", "t", "t", "p", "s", ":", "/", "/", ".", "a">>,
    EX_STAR,
    EX_STAR_TRUSTED,
    <<"t", "r", "u", "s", "t", "e", "d", ".", "c", "o", "m">>,
    <<"d", "a", "t", "a", ":", "a", ".", "b">>,
    <<"'", "s", "e", "l", "f", "'", ".", "a">>
}

TokenAlphabet == {"a", "7", "_", ".", "*", "'"}
Tokens == SeqsUpTo(TokenAlphabet, MaxTokenLen) \cup KeywordLike

SegmentPieces == {
    <<" ">>,
    <<VT>>,
    <<"K", "e", "y">>,
    <<"\t", "'", "s", "e", "l", "f", "'">>,
    <<" ", "A", ".", "b">>,
    <<"*">>
}
Segments == {Concat(ps) : ps \in SeqsUpTo(SegmentPieces, MaxSegmentPieces)}

MaxPolicyPieces == 4
MaxLinePieces == 4
MaxLines == 3

PolicyPieces == {
    <<";">>,
    <<" ">>,
    <<VT>>,
    <<"i", "m", "g", "-", "s", "r", "c", " ", "*", ";">>,
    <<" ", "K", " ", "'", "s", "e", "l", "f", "'", "\t", "A", ".", "b">>,
    <<"d", "a", "t", "a", ":">>
}
Policies == {Concat(ps) : ps \in SeqsUpTo(PolicyPieces, MaxPolicyPieces)}

HEADER_MIXED == <<"C", "o", "n", "t", "e", "n", "t", "-", "S", "e", "c", "u", "r", "i", "t", "y", "-", "P", "o", "l", "i", "c", "y", ":">>
HEADER_UPPER == <<"C", "O", "N", "T", "E", "N", "T", "-", "S", "E", "C", "U", "R", "I", "T", "Y", "-", "P", "O", "L", "I", "C", "Y", ":">>
LinePieces == {HEADER_MIXED, HEADER_UPPER} \cup {
    <<";">>,
    <<" ">>,
    <<"I", "m", "g", "-", "S", "r", "c", " ", "*">>,
    <<" ", "k", " ", "'", "S", "e", "l", "f", "'">>,
    <<"d", "a", "t", "a", ":">>
}
Lines == {Concat(ps) : ps \in SeqsUpTo(LinePieces, MaxLinePieces)}

\* the lines the input stream of main delivers
StreamLines == {
    <<>>,
    <<"C", "o", "n", "t", "e", "n", "t", "-", "S", "e", "c", "u", "r", "i", "t", "y", "-", "P", "o", "l", "i", "c", "y", ":", " ", "d", "e", "f", "a", "u", "l", "t", "-", "s", "r", "c", " ", "'", "s", "e", "l", "f", "'">>,
    <<"i", "m", "g", "-", "s", "r", "c", " ", "*", ";", " ", "K", " ", "a", ".", "b", " ", "'", "n", "o", "n", "e", "'">>,
    <<"s", "t", "r", "a", "y", ";">>
}
Streams == SeqsUpTo(StreamLines, MaxLines)

-----------------------------------------------------------------------------
(* Calls of one function on one input.  The variables of main's loop are     *)
(* idle in these specifications.                                             *)

MainIdle ==
    /\ stdin = <<>>
    /\ nread = 0
    /\ pc = "idle"
    /\ line = <<>>
    /\ result = <<>>
    /\ stdout = <<>>

InitValue ==
    /\ MainIdle
    /\ multiline = FALSE
    /\ colorize = FALSE
    /\ arg \in Tokens
    /\ called = FALSE
    /\ ret = <<>>

CallValueFrom ==
    /\ ~called
    /\ ret' = Value_from(arg)
    /\ called' = TRUE
    /\ UNCHANGED <<stdin, nread, pc, line, result, stdout, multiline, colorize, arg>>

SpecValue == InitValue /\ [][CallValueFrom]_vars

InitRow ==
    /\ MainIdle
    /\ multiline = FALSE
    /\ colorize = FALSE
    /\ arg \in Segments
    /\ called = FALSE
    /\ ret = <<>>

CallRowFrom ==
    /\ ~called
    /\ ret' = Row_from(arg)
    /\ called' = TRUE
    /\ UNCHANGED <<stdin, nread, pc, line, result, stdout, multiline, colorize, arg>>

SpecRow == InitRow /\ [][CallRowFrom]_vars

InitPolicy ==
    /\ MainIdle
    /\ multiline \in BOOLEAN
    /\ colorize \in BOOLEAN
    /\ arg \in Policies
    /\ called = FALSE
    /\ ret = <<>>

CallPrettyPrint ==
    /\ ~called
    /\ ret' = pretty_print(arg, multiline, colorize)
    /\ called' = TRUE
    /\ UNCHANGED <<stdin, nread, pc, line, result, stdout, multiline, colorize, arg>>

SpecPolicy == InitPolicy /\ [][CallPrettyPrint]_vars

\* handle_line is called on the same line once with each value of multi_line;
\* ret holds the pairs <<multi_line, returned string>> of the calls made
InitLine ==
    /\ MainIdle
    /\ multiline = FALSE
    /\ colorize \in BOOLEAN
    /\ arg \in Lines
    /\ called = FALSE
    /\ ret = {}

CallHandleLine ==
    \E multi_line \in BOOLEAN :
        /\ \A r \in ret : r[1] # multi_line
        /\ ret' = ret \cup {<<multi_line, handle_line(arg, multi_line, colorize)>>}
        /\ multiline' = multi_line
        /\ called' = TRUE
        /\ UNCHANGED <<stdin, nread, pc, line, result, stdout, colorize, arg>>

SpecLine == InitLine /\ [][CallHandleLine]_vars

-----------------------------------------------------------------------------
(* main: for line in input.lock().lines() { println!(handle_line(..)) }      *)

Init ==
    /\ stdin \in Streams
    /\ nread = 0
    /\ pc = "next"
    /\ line = <<>>
    /\ result = <<>>
    /\ stdout = <<>>
    /\ multiline \in BOOLEAN
    /\ colorize \in BOOLEAN
    /\ arg = <<>>
    /\ called = FALSE
    /\ ret = <<>>

\* Lines::next returns Some(Ok(line))
ReadLine ==
    /\ pc = "next"
    /\ nread < Len(stdin)
    /\ line' = stdin[nread + 1]
    /\ nread' = nread + 1
    /\ pc' = "handle"
    /\ UNCHANGED <<stdin, result, stdout, multiline, colorize, arg, called, ret>>

\* Lines::next returns None: the loop and main end
ReadEof ==
    /\ pc = "next"
    /\ nread = Len(stdin)
    /\ pc' = "done"
    /\ UNCHANGED <<stdin, nread, line, result, stdout, multiline, colorize, arg, called, ret>>

\* Lines::next returns Some(Err(_)): line.unwrap() panics
ReadError ==
    /\ pc = "next"
    /\ pc' = "panicked"
    /\ UNCHANGED <<stdin, nread, line, result, stdout, multiline, colorize, arg, called, ret>>

\* a loop body that builds its result in a buffer it never clears
HandleLineStale ==
    /\ pc = "handle"
    /\ result' = result \o handle_line(line, multiline, colorize)
    /\ pc' = "print"
    /\ UNCHANGED <<stdin, nread, line, stdout, multiline, colorize, arg, called, ret>>

\* the argument of println! is evaluated
HandleLine ==
    /\ pc = "handle"
    /\ result' = handle_line(line, multiline, colorize)
    /\ pc' = "print"
    /\ UNCHANGED <<stdin, nread, line, stdout, multiline, colorize, arg, called, ret>>

\* a println! that is skipped for an empty result
PrintLineSkipEmpty ==
    /\ pc = "print"
    /\ stdout' = IF result = <<>> THEN stdout ELSE Append(stdout, result \o <<"\n">>)
    /\ pc' = "next"
    /\ UNCHANGED <<stdin, nread, line, result, multiline, colorize, arg, called, ret>>

\* println! writes the result and a newline
PrintLine ==
    /\ pc = "print"
    /\ stdout' = Append(stdout, result \o <<"\n">>)
    /\ pc' = "next"
    /\ UNCHANGED <<stdin, nread, line, result, multiline, colorize, arg, called, ret>>

\* println! panics when a write to standard output fails: by the time the
\* program has ended, any part of the result and its newline has been written,
\* from none of it to all of it (what is still buffered is flushed at exit)
PrintError ==
    /\ pc = "print"
    /\ \E n \in 0..(Len(result) + 1) :
          stdout' = IF n = 0 THEN stdout
                    ELSE Append(stdout, SubSeq(result \o <<"\n">>, 1, n))
    /\ pc' = "panicked"
    /\ UNCHANGED <<stdin, nread, line, result, multiline, colorize, arg, called, ret>>

Next ==
    \/ ReadLine
    \/ ReadEof
    \/ ReadError
    \/ HandleLine
    \/ PrintLine
    \/ PrintError

Spec == Init /\ [][Next]_vars

-----------------------------------------------------------------------------
(* What the claims say, stated without the operators of the model *)

\* u is, as a whole, groups of word characters each followed by a dot and then
\* at least one word character: only word characters and dots, a word
\* character first and last, at least one dot, no two dots adjacent
IsDottedHost(u) ==
    /\ Len(u) >= 3
    /\ \A k \in 1..Len(u) : IsWordChar(u[k]) \/ u[k] = "."
    /\ IsWordChar(u[1])
    /\ IsWordChar(u[Len(u)])
    /\ \E k \in 1..Len(u) : u[k] = "."
    /\ \A k \in 1..(Len(u) - 1) : ~(u[k] = "." /\ u[k + 1] = ".")

IsHostForm(u) ==
    \/ IsDottedHost(u)
    \/ \E sch \in {SCHEME_HTTP, SCHEME_HTTPS} :
        /\ Len(u) > Len(sch)
        /\ SubSeq(u, 1, Len(sch)) = sch
        /\ IsDottedHost(SubSeq(u, Len(sch) + 1, Len(u)))

ContainsHostForm(s) ==
    \E i \in 1..Len(s) : \E j \in i..Len(s) : IsHostForm(SubSeq(s, i, j))

SafeKeywords == {KW_SELF, KW_NONE}
UnsafeKeywords == {KW_UNSAFE_INLINE, KW_UNSAFE_EVAL, KW_DATA}

\* the k-th smallest element of a set of integers
Kth(S, k) == CHOOSE x \in S : Cardinality({y \in S : y <= x}) = k

WordStarts(s) ==
    {i \in 1..Len(s) : ~IsWhitespace(s[i]) /\ (i = 1 \/ IsWhitespace(s[i - 1]))}
WordEnds(s) ==
    {i \in 1..Len(s) : ~IsWhitespace(s[i]) /\ (i = Len(s) \/ IsWhitespace(s[i + 1]))}

\* the whitespace-separated words of s, in the order written
WordsOf(s) ==
    [k \in 1..Cardinality(WordStarts(s)) |->
        SubSeq(s, Kth(WordStarts(s), k), Kth(WordEnds(s), k))]

\* the semicolon-delimited segments of s, in the order written
SemicolonsOf(s) == {i \in 1..Len(s) : s[i] = ";"}
SegmentsOf(s) ==
    LET semis == SemicolonsOf(s)
        n == Cardinality(semis) + 1
    IN  [k \in 1..n |->
            SubSeq(s,
                   IF k = 1 THEN 1 ELSE Kth(semis, k - 1) + 1,
                   IF k = n THEN Len(s) ELSE Kth(semis, k) - 1)]

HasTwoWords(segment) == Cardinality(WordStarts(segment)) >= 2

\* the word sequences of the segments of s that have at least 2 words
RowWordsOf(s) ==
    LET q == SelectSeq(SegmentsOf(s), HasTwoWords)
    IN  [i \in DOMAIN q |-> WordsOf(q[i])]

\* a written string without the escape sequences of the colouring: each
\* runs from an escape character to the next m
RECURSIVE Visible(_)
Visible(s) ==
    IF s = <<>> THEN <<>>
    ELSE IF s[1] = ESC
         THEN LET ms == {i \in 1..Len(s) : s[i] = "m"}
              IN  IF ms = {} THEN <<>>
                  ELSE Visible(SubSeq(s, Kth(ms, 1) + 1, Len(s)))
         ELSE <<s[1]>> \o Visible(Tail(s))

IsPrefix(p, s) == Len(p) <= Len(s) /\ SubSeq(s, 1, Len(p)) = p

\* whether the i-th write may have been cut short: println! failed on it
IsFailedWrite(i) == pc = "panicked" /\ i = nread

EndsWith(s, suffix) ==
    /\ Len(s) >= Len(suffix)
    /\ SubSeq(s, Len(s) - Len(suffix) + 1, Len(s)) = suffix

\* s with every occurrence of SEP_MULTI replaced by SEP_SINGLE, left to right
RECURSIVE MultiToSingle(_)
MultiToSingle(s) ==
    IF s = <<>> THEN <<>>
    ELSE IF StartsAt(s, SEP_MULTI, 1)
         THEN SEP_SINGLE \o MultiToSingle(SubSeq(s, Len(SEP_MULTI) + 1, Len(s)))
         ELSE <<s[1]>> \o MultiToSingle(Tail(s))

\* the header prefix in a line, searched without regard to letter case
HeaderStarts(s) == {i \in 1..Len(s) : StartsAt(to_lowercase(s), CSP_HEADER, i)}
AfterFirstHeader(s) ==
    SubSeq(s, Kth(HeaderStarts(s), 1) + Len(CSP_HEADER), Len(s))

IsSubstring(w, s) == w = <<>> \/ \E i \in 1..Len(s) : StartsAt(s, w, i)

-----------------------------------------------------------------------------
(* C3: Value::classify is total and follows the precedence Safe keyword,     *)
(* Unsafe keyword, host pattern (Plain), Malformed (Error): every string     *)
(* gets exactly one classification, Safe iff it is exactly 'self' or 'none', *)
(* UnSafe iff it is exactly 'unsafe-inline', 'unsafe-eval' or data:, Plain   *)
(* iff it is no keyword and matches the host pattern, Error otherwise;       *)
(* 'unsafe-foobar' and 'https://foo' are Error, 'https://foo.bar' is Plain.  *)
C3_ClassifyTotalWithPrecedence ==
    called =>
        /\ ret.text = arg
        /\ ret.value_type \in {"Safe", "UnSafe", "Plain", "Error"}
        /\ (ret.value_type = "Safe") <=> (arg \in SafeKeywords)
        /\ (ret.value_type = "UnSafe") <=> (arg \in UnsafeKeywords)
        /\ (ret.value_type = "Plain") <=>
              (arg \notin SafeKeywords \cup UnsafeKeywords /\ ContainsHostForm(arg))
        /\ (ret.value_type = "Error") <=>
              (arg \notin SafeKeywords \cup UnsafeKeywords /\ ~ContainsHostForm(arg))
        /\ (arg \in {EX_UNSAFE_FOOBAR, EX_HTTPS_FOO}) => ret.value_type = "Error"
        /\ (arg = EX_HTTPS_FOO_BAR) => ret.value_type = "Plain"

C3_Witness ==
    /\ called
    /\ arg = EX_UNSAFE_FOOBAR
    /\ ret.value_type = "Error"

(* C4: the host test is an unanchored search: a token that is no keyword is  *)
(* Plain iff some substring of it has the host form, whatever surrounds that *)
(* substring; a bare * is Error and *.trusted.com is Plain.                  *)
C4_HostTestIsUnanchoredSearch ==
    (called /\ arg \notin SafeKeywords \cup UnsafeKeywords) =>
        /\ (ret.value_type = "Plain") <=>
              (\E i \in 1..Len(arg) : \E j \in i..Len(arg) : IsHostForm(SubSeq(arg, i, j)))
        /\ (arg = EX_STAR) => ret.value_type = "Error"
        /\ (arg = EX_STAR_TRUSTED) => ret.value_type = "Plain"

\* a Plain token whose host-form substring has a character before it that the
\* pattern does not allow
C4_Witness ==
    /\ called
    /\ arg = EX_STAR_TRUSTED
    /\ ret.value_type = "Plain"
    /\ ~IsHostForm(arg)

(* C9: Row::from returns no Row for a segment with fewer than 2 words;       *)
(* otherwise a Row whose key is the first word and whose values are the      *)
(* remaining words, in the order written, each classified by                 *)
(* Value::classify: the key is non-empty and free of whitespace, there is at *)
(* least one value, and no word is lost, duplicated or reordered.            *)
C9_RowFromKeepsWords ==
    called =>
        LET words == WordsOf(arg)
        IN  /\ (Len(words) < 2) => ret = <<>>
            /\ (Len(words) >= 2) =>
                  /\ Len(ret) = 1
                  /\ ret[1].key = words[1]
                  /\ ret[1].key # <<>>
                  /\ \A k \in 1..Len(ret[1].key) : ~IsWhitespace(ret[1].key[k])
                  /\ Len(ret[1].values) = Len(words) - 1
                  /\ Len(ret[1].values) >= 1
                  /\ \A i \in 1..Len(ret[1].values) :
                        /\ ret[1].values[i].text = words[i + 1]
                        /\ ret[1].values[i].value_type = classify(words[i + 1])

C9_Witness ==
    /\ called
    /\ Len(ret) = 1
    /\ Len(ret[1].values) >= 2
    /\ \E i \in 1..Len(arg) : IsWhitespace(arg[i]) /\ i < Kth(WordStarts(arg), 1)

(* C1: for every input line that contains the header prefix in any letter    *)
(* case, every directive name and every value in the output of handle_line   *)
(* has exactly the letter case it has in the input line: each word of the    *)
(* output occurs, letter for letter, in the input line.                      *)
C1_OutputKeepsInputCase ==
    \A r \in ret :
        HeaderStarts(arg) # {} =>
            LET rows == SegmentsOf(Visible(r[2]))
            IN  \A i \in DOMAIN rows :
                    \A k \in DOMAIN WordsOf(rows[i]) :
                        IsSubstring(WordsOf(rows[i])[k], arg)

(* C2: when the header prefix occurs more than once in a line, handle_line   *)
(* processes everything after the first occurrence up to the end of the      *)
(* line, later occurrences and the text after them included (compared here   *)
(* without regard to letter case and colouring).                             *)
C2_OnlyFirstHeaderBoundaryMatters ==
    \A r \in ret :
        Cardinality(HeaderStarts(arg)) >= 2 =>
            to_lowercase(Visible(r[2])) =
                to_lowercase(Visible(pretty_print(AfterFirstHeader(arg), r[1], colorize)))

(* C5: pretty_print emits one row for each semicolon-delimited segment that  *)
(* has at least 2 words and for no other segment, in the order written; the  *)
(* output is the empty string exactly when no segment has 2 or more words.   *)
C5_OneRowPerTwoWordSegment ==
    called =>
        LET expected == RowWordsOf(arg)
            rows == SegmentsOf(Visible(ret))
        IN  /\ (ret = <<>>) <=> (expected = <<>>)
            /\ (expected # <<>>) =>
                  /\ Len(rows) = Len(expected)
                  /\ \A i \in DOMAIN rows : WordsOf(rows[i]) = expected[i]

\* an empty, a one-word and a trailing empty segment are dropped around rows
C5_Witness ==
    /\ called
    /\ Len(RowWordsOf(arg)) = 2
    /\ Len(SegmentsOf(arg)) = 4
    /\ arg[Len(arg)] = ";"
    /\ \E k \in DOMAIN SegmentsOf(arg) : Cardinality(WordStarts(SegmentsOf(arg)[k])) = 1
    /\ Len(SegmentsOf(Visible(ret))) = 2

(* C6: with styling disabled each row is rendered as name, separator,        *)
(* value1, separator, ..., valueN, the separator being one space when        *)
(* multiline is false and newline+tab when it is true; rows are joined with  *)
(* ";\n" whatever the flag is; no rows render as the empty string and the    *)
(* output never ends with a row separator.                                   *)
C6_RowAndJoinFormat ==
    (called /\ ~colorize) =>
        LET rows == RowWordsOf(arg)
            sep == IF multiline THEN <<"\n", "\t">> ELSE <<" ">>
            RowText(i) ==
                Concat([k \in DOMAIN rows[i] |->
                    (IF k = 1 THEN <<>> ELSE sep) \o rows[i][k]])
        IN  /\ ret = Concat([i \in DOMAIN rows |->
                    (IF i = 1 THEN <<>> ELSE <<";", "\n">>) \o RowText(i)])
            /\ (rows = <<>>) => ret = <<>>
            /\ ~EndsWith(ret, <<";", "\n">>)
            /\ ~EndsWith(ret, sep)

C6_Witness ==
    /\ called
    /\ ~colorize
    /\ multiline
    /\ Len(RowWordsOf(arg)) = 2
    /\ \E i \in 1..2 : Len(RowWordsOf(arg)[i]) >= 3
    /\ Cardinality(SemicolonsOf(ret)) = 1

(* C7: main handles the stream a line at a time: a line is read only when    *)
(* the result of every line read before has been written, the i-th write is  *)
(* the result of the i-th line (a write on which println! failed is a part   *)
(* or all of it, and the last), and after end of input the number of results *)
(* written equals the number of lines read, which is all of them.            *)
C7_OneResultPerLineInOrder ==
    /\ nread <= Len(stdin)
    /\ (pc \in {"next", "done"}) => Len(stdout) = nread
    /\ (pc \in {"handle", "print"}) => (Len(stdout) = nread - 1 /\ line = stdin[nread])
    /\ Len(stdout) <= nread
    /\ \A i \in DOMAIN stdout :
          LET whole == handle_line(stdin[i], multiline, colorize) \o <<"\n">>
          IN  IF IsFailedWrite(i) THEN IsPrefix(stdout[i], whole)
              ELSE stdout[i] = whole
    /\ (pc = "done") => (nread = Len(stdin) /\ Len(stdout) = Len(stdin))

\* the stream has ended after two lines, one of which renders as nothing
C7_Witness ==
    /\ pc = "done"
    /\ Len(stdin) >= 2
    /\ Len(stdout) = Len(stdin)
    /\ \E i \in DOMAIN stdout : stdout[i] = <<"\n">>
    /\ \E i \in DOMAIN stdout : stdout[i] # <<"\n">>

(* C8: line processing is stateless and deterministic: the result written    *)
(* for a line depends on the text of the line and the multiline flag only,   *)
(* not on the lines processed before it; the same line processed twice       *)
(* gives the same result (a write on which println! failed aside).           *)
C8_ResultDependsOnLineOnly ==
    /\ \A i \in DOMAIN stdout : \A j \in DOMAIN stdout :
          (stdin[i] = stdin[j] /\ ~IsFailedWrite(i) /\ ~IsFailedWrite(j)) =>
              (stdout[i] = stdout[j])
    /\ (pc = "print") => result = handle_line(line, multiline, colorize)

\* the same line written twice, with another line processed in between
C8_Witness ==
    /\ Len(stdout) = 3
    /\ stdin[1] = stdin[3]
    /\ stdin[1] # stdin[2]
    /\ stdout[1] = stdout[3]
    /\ stdout[1] # <<"\n">>
    /\ stdout[2] # <<"\n">>

(* C10: the multiline flag changes only the separator inside a row: with     *)
(* styling disabled, replacing every newline+tab in handle_line(line, true)  *)
(* by a single space yields exactly handle_line(line, false).                *)
C10_MultilineChangesSeparatorOnly ==
    ~colorize =>
        \A m \in ret : \A s \in ret :
            (m[1] /\ ~s[1]) => MultiToSingle(m[2]) = s[2]

C10_Witness ==
    /\ ~colorize
    /\ HeaderStarts(arg) # {}
    /\ \E m \in ret : \E s \in ret :
          /\ m[1]
          /\ ~s[1]
          /\ m[2] # s[2]
          /\ Cardinality(SemicolonsOf(s[2])) >= 1

====
